---- MODULE Spec2Model ----
(***************************************************************************)
(* Model of src/app.py: the query expander generar_consultas and the two   *)
(* MCP tools buscar_empleos and buscar_google.                             *)
(*                                                                         *)
(* A Python str is a sequence of one-character strings.  One behaviour is  *)
(* one tool invocation (all state of app.py is local to an invocation).    *)
(* The remote APIs are the environment: every outbound call ends in one of *)
(* the outcomes the requests library can produce, chosen when it ends.     *)
(***************************************************************************)
EXTENDS Integers, Sequences, FiniteSets, TLC

VARIABLES
    tool,                  \* the tool invoked: "none", "generar_consultas", "buscar_empleos", "buscar_google"
    pc,                    \* control position inside the invocation
    consulta_inicial,      \* params.consulta / q
    consultas_a_realizar,  \* list returned by generar_consultas
    i,                     \* number of loop iterations of `for consulta in ...` entered
    todas_las_vacantes,    \* insertion-ordered dict: sequence of [key, value]
    inflight,              \* outbound HTTP calls started and not yet ended
    sent,                  \* history: outbound requests, in the order issued
    received,              \* history: outcome of each ended outbound call
    result,                \* the dict returned by the tool
    jsonErrorCaught        \* does the installed requests raise a RequestException from response.json()

vars == <<tool, pc, consulta_inicial, consultas_a_realizar, i, todas_las_vacantes,
          inflight, sent, received, result, jsonErrorCaught>>

---------------------------------------------------------------------------
(* Bounds of the model *)

\* longest free part of an expander input
MaxLen == 3
\* most items in one "vacancies" array
MaxItems == 2
\* most entries in one "organic" array
MaxOrganic == 6

---------------------------------------------------------------------------
(* Strings *)

\* characters str.strip() removes (the two of str.isspace() the model uses)
Whitespace == {" ", "\t"}

Chars == {"a", " ", "\t"}

Words(n) == UNION {[1..k -> Chars] : k \in 0..n}

\* f"{consulta_limpia} remoto": a single space, then the word
Suffix == <<" ", "r", "e", "m", "o", "t", "o">>

\* inputs of the expander: free strings, and the same strings already ending in the
\* suffix, with or without a trailing space
Inputs ==
    Words(MaxLen) \cup {w \o Suffix \o v : w \in Words(MaxLen), v \in {<<>>, <<" ">>}}

RECURSIVE lstrip(_)
lstrip(s) == IF s # <<>> /\ Head(s) \in Whitespace THEN lstrip(Tail(s)) ELSE s

RECURSIVE rstrip(_)
rstrip(s) == IF s # <<>> /\ s[Len(s)] \in Whitespace THEN rstrip(SubSeq(s, 1, Len(s) - 1)) ELSE s

strip(s) == rstrip(lstrip(s))

\* urllib.parse.quote on one character: unreserved characters stay, the rest is %XX
QuoteChar(c) ==
    CASE c = " "  -> <<"%", "2", "0">>
      [] c = "\t" -> <<"%", "0", "9">>
      [] OTHER    -> <<c>>

RECURSIVE quote(_)
quote(s) == IF s = <<>> THEN <<>> ELSE QuoteChar(Head(s)) \o quote(Tail(s))

---------------------------------------------------------------------------
(* generar_consultas *)

\* list(set): every element once, in an order the hash seed decides
ListOfSet(S) ==
    {l \in [1..Cardinality(S) -> S] : \A a, b \in 1..Cardinality(S) : a # b => l[a] # l[b]}

\* variants of generar_consultas with one step left out: no strip(), no empty check
generar_consultas_nostrip(s) ==
    IF strip(s) = <<>> THEN {<<>>} ELSE ListOfSet({s, s \o Suffix})

generar_consultas_noguard(s) ==
    ListOfSet({strip(s), strip(s) \o Suffix})

\* the set of lists generar_consultas(s) may return
generar_consultas(s) ==
    LET consulta_limpia == strip(s)
        consultas == {consulta_limpia, consulta_limpia \o Suffix}
    IN  IF consulta_limpia = <<>> THEN {<<>>} ELSE ListOfSet(consultas)

---------------------------------------------------------------------------
(* The job-search API as buscar_empleos sees it *)

\* how an outbound call made through requests ends
RequestFailures == {"ConnectionError", "Timeout", "HTTPError"}
Statuses == RequestFailures \cup {"JSONDecodeError", "ok"}

\* one element of "vacancies"; hasId = FALSE is an object without the "id" key
Items ==
    {[hasId |-> TRUE, id |-> n, data |-> d] : n \in {1, 2}, d \in {"x", "y"}}
    \cup {[hasId |-> FALSE, id |-> 0, data |-> "x"]}

ItemLists == UNION {[1..k -> Items] : k \in 0..MaxItems}

\* the parsed JSON body: not an object, an object without "vacancies", one with
\* "vacancies": null, or one with a "vacancies" array
JobBodies ==
    {[shape |-> s, vacancies |-> <<>>] : s \in {"nondict", "absent", "null"}}
    \cup {[shape |-> "list", vacancies |-> l] : l \in ItemLists}

NoBody == [shape |-> "none", vacancies |-> <<>>]

JobResponses ==
    {[status |-> s, body |-> NoBody] : s \in Statuses \ {"ok"}}
    \cup {[status |-> "ok", body |-> b] : b \in JobBodies}

\* except requests.exceptions.RequestException: HTTPError, ConnectionError and Timeout
\* are subclasses; the error of response.json() is one only in requests >= 2.27
IsRequestException(status, jsonCaught) ==
    \/ status \in RequestFailures
    \/ status = "JSONDecodeError" /\ jsonCaught

\* a merge where the first write wins
UpsertKeepFirst(d, vacante) ==
    IF \E k \in 1..Len(d) : d[k].key = vacante.id
    THEN d
    ELSE Append(d, [key |-> vacante.id, value |-> vacante])

\* todas_las_vacantes[vacante["id"]] = vacante: a dict keeps the place of a key's
\* first insertion and the value of its last
Upsert(d, vacante) ==
    IF \E k \in 1..Len(d) : d[k].key = vacante.id
    THEN [k \in 1..Len(d) |->
            IF d[k].key = vacante.id THEN [key |-> vacante.id, value |-> vacante] ELSE d[k]]
    ELSE Append(d, [key |-> vacante.id, value |-> vacante])

\* for vacante in vacancies: ...   (a missing "id" raises KeyError)
RECURSIVE MergeVacancies(_, _)
MergeVacancies(d, vacancies) ==
    IF vacancies = <<>> THEN [how |-> "ok", dict |-> d]
    ELSE IF ~Head(vacancies).hasId THEN [how |-> "KeyError", dict |-> d]
    ELSE MergeVacancies(Upsert(d, Head(vacancies)), Tail(vacancies))

\* an all-or-nothing fan-out: nothing is caught
TryGetAbortOnFailure(resp, d, jsonCaught) ==
    IF resp.status # "ok" THEN [how |-> resp.status, dict |-> d]
    ELSE IF resp.body.shape = "nondict" THEN [how |-> "AttributeError", dict |-> d]
    ELSE IF resp.body.shape = "null" THEN [how |-> "TypeError", dict |-> d]
    ELSE IF resp.body.shape = "absent" THEN [how |-> "ok", dict |-> d]
    ELSE MergeVacancies(d, resp.body.vacancies)

\* the try/except of one loop iteration: how it ends ("ok", "caught", or the name of
\* the exception that leaves buscar_empleos) and the merge mapping after it
TryGet(resp, d, jsonCaught) ==
    IF resp.status # "ok"
    THEN [how |-> IF IsRequestException(resp.status, jsonCaught) THEN "caught" ELSE resp.status,
          dict |-> d]
    ELSE IF resp.body.shape = "nondict" THEN [how |-> "AttributeError", dict |-> d]
    ELSE IF resp.body.shape = "null" THEN [how |-> "TypeError", dict |-> d]
    ELSE IF resp.body.shape = "absent" THEN [how |-> "ok", dict |-> d]
    ELSE MergeVacancies(d, resp.body.vacancies)

\* list(todas_las_vacantes.values())
Values(d) == [k \in 1..Len(d) |-> d[k].value]

---------------------------------------------------------------------------
(* Requests and results *)

GetRequest(consulta) ==
    [method |-> "GET", url |-> "https://api-search.cumbre.icu/search/",
     arg |-> quote(consulta), params |-> "limit=10&page=0", timeout |-> "10"]

PostRequest(q) ==
    [method |-> "POST", url |-> "https://google.serper.dev/search",
     arg |-> quote(q), params |-> "", timeout |-> "None"]

NoResult ==
    [keys |-> {}, consultas_realizadas |-> <<>>, vacantes_encontradas |-> <<>>,
     error |-> "", resultados_encontrados |-> <<>>, consulta |-> <<>>, resumen |-> <<>>]

EmpleosResult(consultas, vacantes) ==
    [NoResult EXCEPT !.keys = {"consultas_realizadas", "vacantes_encontradas"},
                     !.consultas_realizadas = consultas,
                     !.vacantes_encontradas = vacantes]

\* queries the tools are invoked with: empty, blank, padded, already "remoto"
ToolQueries ==
    {<<>>, <<" ", "\t">>, <<" ", "a", " ">>, <<"a">> \o Suffix}

---------------------------------------------------------------------------
(* buscar_empleos *)

Init ==
    /\ tool = "none"
    /\ pc = "idle"
    /\ consulta_inicial = <<>>
    /\ consultas_a_realizar = <<>>
    /\ i = 0
    /\ todas_las_vacantes = <<>>
    /\ inflight = 0
    /\ sent = <<>>
    /\ received = <<>>
    /\ result = NoResult
    /\ jsonErrorCaught \in BOOLEAN

\* lines 57-62: the call arrives, the query is expanded, the mapping is empty
InvokeBuscarEmpleos ==
    /\ pc = "idle"
    /\ \E q \in ToolQueries : \E cs \in generar_consultas(q) :
        /\ consulta_inicial' = q
        /\ consultas_a_realizar' = cs
    /\ tool' = "buscar_empleos"
    /\ todas_las_vacantes' = <<>>
    /\ pc' = "loop"
    /\ UNCHANGED <<i, inflight, sent, received, result, jsonErrorCaught>>

\* lines 64-69: the loop takes the next variant and requests.get is called
StartGet ==
    /\ tool = "buscar_empleos"
    /\ pc = "loop"
    /\ i < Len(consultas_a_realizar)
    /\ i' = i + 1
    /\ sent' = Append(sent, GetRequest(consultas_a_realizar[i + 1]))
    /\ inflight' = inflight + 1
    /\ pc' = "get"
    /\ UNCHANGED <<tool, consulta_inicial, consultas_a_realizar, todas_las_vacantes,
                   received, result, jsonErrorCaught>>

\* lines 69-78: requests.get returns or raises; the rest of the try/except runs
EndGet ==
    /\ tool = "buscar_empleos"
    /\ pc = "get"
    /\ \E resp \in JobResponses :
        LET r == TryGet(resp, todas_las_vacantes, jsonErrorCaught)
        IN  /\ received' = Append(received, resp)
            /\ todas_las_vacantes' = r.dict
            /\ pc' = IF r.how \in {"ok", "caught"} THEN "loop" ELSE "raised"
    /\ inflight' = inflight - 1
    /\ UNCHANGED <<tool, consulta_inicial, consultas_a_realizar, i, sent, result,
                   jsonErrorCaught>>

\* lines 80-88: the loop is exhausted, the response is built and returned
ReturnEmpleos ==
    /\ tool = "buscar_empleos"
    /\ pc = "loop"
    /\ i = Len(consultas_a_realizar)
    /\ result' = EmpleosResult(consultas_a_realizar, Values(todas_las_vacantes))
    /\ pc' = "returned"
    /\ UNCHANGED <<tool, consulta_inicial, consultas_a_realizar, i, todas_las_vacantes,
                   inflight, sent, received, jsonErrorCaught>>

---------------------------------------------------------------------------
(* The web-search API as buscar_google sees it *)

\* data["answerBox"]: key absent, null, {}, a non-empty object with or without
\* "answer", or a non-empty value that is no object
AnswerBoxes ==
    {[kind |-> k, hasAnswer |-> FALSE, answer |-> ""] : k \in {"absent", "null", "empty", "string", "dict"}}
    \cup {[kind |-> "dict", hasAnswer |-> TRUE, answer |-> "42"]}

\* data["knowledgeGraph"]: as above; in a non-empty object "title" and "description"
\* are a non-empty string, or empty or absent ("")
KnowledgeGraphs ==
    {[kind |-> k, title |-> "", description |-> ""] : k \in {"absent", "null", "empty", "string"}}
    \cup {[kind |-> "dict", title |-> ti, description |-> de] : ti \in {"", "T"}, de \in {"", "D"}}

\* one element of "organic": an object with all three fields, or {}
OrganicResults ==
    {[hasTitle |-> TRUE, title |-> "t", hasLink |-> TRUE, link |-> "l",
      hasSnippet |-> TRUE, snippet |-> "s"],
     [hasTitle |-> FALSE, title |-> "", hasLink |-> FALSE, link |-> "",
      hasSnippet |-> FALSE, snippet |-> ""]}

\* data["organic"]: key absent, null, a non-empty object, a non-empty array of
\* strings, or an array of objects
Organics ==
    {[kind |-> k, items |-> <<>>] : k \in {"absent", "null", "dict", "strings"}}
    \cup {[kind |-> "list", items |-> l] : l \in UNION {[1..k -> OrganicResults] : k \in 0..MaxOrganic}}

GoogleBodies ==
    {[shape |-> "nondict", answerBox |-> [kind |-> "absent", hasAnswer |-> FALSE, answer |-> ""],
      knowledgeGraph |-> [kind |-> "absent", title |-> "", description |-> ""],
      organic |-> [kind |-> "absent", items |-> <<>>]]}
    \cup {[shape |-> "dict", answerBox |-> ab, knowledgeGraph |-> kg, organic |-> og] :
            ab \in AnswerBoxes, kg \in KnowledgeGraphs, og \in Organics}

\* the provider's empty body {}
EmptyBody ==
    [shape |-> "dict", answerBox |-> [kind |-> "absent", hasAnswer |-> FALSE, answer |-> ""],
     knowledgeGraph |-> [kind |-> "absent", title |-> "", description |-> ""],
     organic |-> [kind |-> "absent", items |-> <<>>]]

\* requests.post is called without a timeout, so it never ends in Timeout
GoogleResponses ==
    {[status |-> s, body |-> EmptyBody] : s \in Statuses \ {"ok", "Timeout"}}
    \cup {[status |-> "ok", body |-> b] : b \in GoogleBodies}

\* organic_results[:5]
MaxResultados == 5

\* Python truth value of a JSON value of the given kind
Truthy(v) == v.kind \in {"dict", "string", "strings"} \/ (v.kind = "list" /\ v.items # <<>>)

\* one piece appended to resumen by one f-string
Piece(sec, q, n, a, b, c) == [sec |-> sec, consulta |-> q, n |-> n, a |-> a, b |-> b, c |-> c]

Header(q) == <<Piece("Resultados de busqueda para", q, 0, "", "", "")>>

\* lines 138-139
AnswerSection(ab) ==
    IF Truthy(ab)
    THEN <<Piece("Respuesta destacada", <<>>, 0, IF ab.hasAnswer THEN ab.answer ELSE "N/A", "", "")>>
    ELSE <<>>

\* the section without the inner `if title or description`
KnowledgeSectionNoCheck(kg) ==
    IF Truthy(kg)
    THEN <<Piece("Informacion clave", <<>>, 0, kg.title, kg.description, "")>>
    ELSE <<>>

\* lines 141-145
KnowledgeSection(kg) ==
    IF Truthy(kg) /\ (kg.title # "" \/ kg.description # "")
    THEN <<Piece("Informacion clave", <<>>, 0, kg.title, kg.description, "")>>
    ELSE <<>>

\* lines 147-153
OrganicSection(og) ==
    IF Truthy(og)
    THEN LET shown == SubSeq(og.items, 1, IF Len(og.items) < MaxResultados
                                          THEN Len(og.items) ELSE MaxResultados)
         IN  <<Piece("Resultados organicos", <<>>, 0, "", "", "")>>
             \o [k \in 1..Len(shown) |->
                   Piece("resultado", <<>>, k,
                         IF shown[k].hasTitle THEN shown[k].title ELSE "Sin titulo",
                         shown[k].snippet, shown[k].link)]
    ELSE <<>>

\* lines 131-153: the exception that leaves buscar_google while the summary is
\* built, or "ok": .get on a value that is no object, [:5] on an object (TypeError,
\* KeyError from Python 3.12 on), .get on an element that is no object
ResumenFault(data) ==
    IF data.shape # "dict" THEN "AttributeError"
    ELSE IF data.answerBox.kind = "string" THEN "AttributeError"
    ELSE IF data.knowledgeGraph.kind = "string" THEN "AttributeError"
    ELSE IF data.organic.kind = "dict" THEN "TypeError"
    ELSE IF data.organic.kind = "strings" THEN "AttributeError"
    ELSE "ok"

\* lines 136-153
Resumen(q, data) ==
    Header(q) \o AnswerSection(data.answerBox) \o KnowledgeSection(data.knowledgeGraph)
    \o OrganicSection(data.organic)

\* lines 125-128
GoogleError(status) ==
    [NoResult EXCEPT !.keys = {"error", "resultados_encontrados"},
                     !.error = status,
                     !.resultados_encontrados = <<>>]

\* lines 159-162
GoogleResult(q, resumen) ==
    [NoResult EXCEPT !.keys = {"consulta", "resumen"},
                     !.consulta = q,
                     !.resumen = resumen]

---------------------------------------------------------------------------
(* buscar_google *)

\* lines 104-120: the call arrives, the query is encoded, requests.post is called
InvokeBuscarGoogle ==
    /\ pc = "idle"
    /\ \E q \in ToolQueries : 
        /\ consulta_inicial' = q
        /\ sent' = Append(sent, PostRequest(q))
    /\ tool' = "buscar_google"
    /\ inflight' = inflight + 1
    /\ pc' = "post"
    /\ UNCHANGED <<consultas_a_realizar, i, todas_las_vacantes, received, result,
                   jsonErrorCaught>>

\* lines 120-162: requests.post returns or raises; the rest of the function runs
EndPost ==
    /\ tool = "buscar_google"
    /\ pc = "post"
    /\ \E resp \in GoogleResponses :
        /\ received' = Append(received, resp)
        /\ IF resp.status # "ok"
           THEN IF IsRequestException(resp.status, jsonErrorCaught)
                THEN result' = GoogleError(resp.status) /\ pc' = "returned"
                ELSE result' = result /\ pc' = "raised"
           ELSE IF ResumenFault(resp.body) # "ok"
                THEN result' = result /\ pc' = "raised"
                ELSE /\ result' = GoogleResult(consulta_inicial,
                                               Resumen(consulta_inicial, resp.body))
                     /\ pc' = "returned"
    /\ inflight' = inflight - 1
    /\ UNCHANGED <<tool, consulta_inicial, consultas_a_realizar, i, todas_las_vacantes,
                   sent, jsonErrorCaught>>

Next ==
    \/ InvokeBuscarEmpleos
    \/ StartGet
    \/ EndGet
    \/ ReturnEmpleos
    \/ InvokeBuscarGoogle
    \/ EndPost

Spec == Init /\ [][Next]_vars

---------------------------------------------------------------------------
(* generar_consultas on its own *)

CallGenerarConsultas ==
    /\ pc = "idle"
    /\ \E s \in Inputs : \E cs \in generar_consultas(s) :
        /\ consulta_inicial' = s
        /\ consultas_a_realizar' = cs
    /\ tool' = "generar_consultas"
    /\ pc' = "returned"
    /\ UNCHANGED <<i, todas_las_vacantes, inflight, sent, received, result, jsonErrorCaught>>

NextExpander == CallGenerarConsultas

SpecExpander == Init /\ [][NextExpander]_vars

---------------------------------------------------------------------------
(* Vocabulary of the properties *)

Range(f) == {f[k] : k \in DOMAIN f}

NoRepeat(l) == \A a, b \in DOMAIN l : a # b => l[a] # l[b]

Blank(s) == \A k \in DOMAIN s : s[k] \in {" ", "\t"}

\* t is s without its leading and trailing whitespace
IsTrimOf(t, s) ==
    \E a \in 1..(Len(s) + 1), b \in 0..Len(s) :
        /\ t = SubSeq(s, a, b)
        /\ \A k \in 1..Len(s) : (k < a \/ k > b) => s[k] \in {" ", "\t"}
        /\ t # <<>> => (t[1] \notin {" ", "\t"} /\ t[Len(t)] \notin {" ", "\t"})

Remoto == <<" ", "r", "e", "m", "o", "t", "o">>

Ended == pc \in {"returned", "raised"}

\* the outbound call failed: transport failure, timeout or non-success HTTP status
Failed(resp) == resp.status \in {"ConnectionError", "Timeout", "HTTPError"}

\* the outbound call succeeded and delivered a "vacancies" array
Delivered(resp) == resp.status = "ok" /\ resp.body.shape = "list"

EmpleosKeys == {"consultas_realizadas", "vacantes_encontradas"}

\* the items of all delivered responses, in the order processed
RECURSIVE ItemsOf(_)
ItemsOf(resps) ==
    IF resps = <<>> THEN <<>>
    ELSE (IF Delivered(Head(resps)) THEN Head(resps).body.vacancies ELSE <<>>)
         \o ItemsOf(Tail(resps))

LastWith(items, id) ==
    items[CHOOSE k \in DOMAIN items :
            /\ items[k].id = id
            /\ \A j \in DOMAIN items : items[j].id = id => j <= k]

---------------------------------------------------------------------------
(* C1 *)

\* C1: for every input whose trimmed form t is non-empty, generar_consultas returns
\* a list without repetition whose elements are exactly t and t + " remoto"; it has
\* 2 elements unless the two strings are equal, and then 1.
C1_ExpanderVariants ==
    (tool = "generar_consultas" /\ pc = "returned") =>
        \A a \in 1..(Len(consulta_inicial) + 1), b \in 0..Len(consulta_inicial) :
            LET t == SubSeq(consulta_inicial, a, b)
            IN  (IsTrimOf(t, consulta_inicial) /\ t # <<>>) =>
                    /\ NoRepeat(consultas_a_realizar)
                    /\ Range(consultas_a_realizar) = {t, t \o Remoto}
                    /\ Len(consultas_a_realizar) = IF t = t \o Remoto THEN 1 ELSE 2

\* a padded input that already ends in " remoto" has been expanded
C1_Witness ==
    /\ tool = "generar_consultas"
    /\ pc = "returned"
    /\ consulta_inicial = <<"\t", "a">> \o Remoto \o <<" ">>
    /\ consultas_a_realizar = <<<<"a">> \o Remoto \o Remoto, <<"a">> \o Remoto>>

---------------------------------------------------------------------------
(* C2 *)

\* C2: for an empty or all-whitespace query generar_consultas returns the empty
\* list, and buscar_empleos issues no outbound request, does not raise, and returns
\* {consultas_realizadas: [], vacantes_encontradas: []}.
C2_BlankQuery ==
    (tool = "buscar_empleos" /\ Blank(consulta_inicial)) =>
        /\ consultas_a_realizar = <<>>
        /\ sent = <<>>
        /\ pc \in {"loop", "returned"}
        /\ pc = "loop" => ENABLED ReturnEmpleos
        /\ pc = "returned" =>
            /\ result.keys = EmpleosKeys
            /\ result.consultas_realizadas = <<>>
            /\ result.vacantes_encontradas = <<>>

\* buscar_empleos has returned for a query of a space and a tab
C2_Witness ==
    /\ tool = "buscar_empleos"
    /\ pc = "returned"
    /\ consulta_inicial = <<" ", "\t">>

---------------------------------------------------------------------------
(* C3 *)

\* C3: if the call of one variant fails and the call of the other succeeds, in
\* either order, buscar_empleos is not aborted, both variants are requested, and
\* vacantes_encontradas holds exactly the items (by identifier) of the successful
\* response.
C3_PartialFailure ==
    (/\ tool = "buscar_empleos"
     /\ Ended
     /\ \E a, b \in DOMAIN received : Failed(received[a]) /\ Delivered(received[b])) =>
        /\ pc = "returned"
        /\ Len(sent) = Len(consultas_a_realizar)
        /\ \A b \in DOMAIN received : Delivered(received[b]) =>
            /\ {v.id : v \in Range(result.vacantes_encontradas)}
                 = {v.id : v \in Range(received[b].body.vacancies)}
            /\ Range(result.vacantes_encontradas) \subseteq Range(received[b].body.vacancies)

---------------------------------------------------------------------------
(* C4 *)

\* C4: as long as every call made has failed, buscar_empleos does not raise; when
\* the calls of all variants have failed it returns exactly the keys
\* consultas_realizadas and vacantes_encontradas, the latter empty, the former the
\* full non-empty list of variants of the expander.
C4_TotalFailure ==
    (/\ tool = "buscar_empleos"
     /\ consultas_a_realizar # <<>>
     /\ \A k \in DOMAIN received : Failed(received[k])) =>
        /\ pc # "raised"
        /\ (pc = "loop" /\ Len(received) = Len(consultas_a_realizar)) => ENABLED ReturnEmpleos
        /\ pc = "returned" =>
            /\ Len(received) = Len(consultas_a_realizar)
            /\ result.keys = EmpleosKeys
            /\ result.vacantes_encontradas = <<>>
            /\ result.consultas_realizadas = consultas_a_realizar
            /\ result.consultas_realizadas # <<>>
            /\ \A k \in DOMAIN sent :
                 sent[k].arg = quote(result.consultas_realizadas[k])

\* both variants were requested, both calls failed, and the tool has returned
C4_Witness ==
    /\ tool = "buscar_empleos"
    /\ pc = "returned"
    /\ Len(received) = 2
    /\ received[1].status = "Timeout"
    /\ received[2].status = "HTTPError"

---------------------------------------------------------------------------
(* C5 *)

\* C5: once buscar_empleos has processed all variants, vacantes_encontradas has
\* exactly one entry for each identifier occurring in a successful response, and
\* that entry is the item of the identifier's last processed occurrence.
C5_DedupLastWins ==
    (tool = "buscar_empleos" /\ pc = "returned") =>
        LET items == ItemsOf(received)
            vac == result.vacantes_encontradas
        IN  /\ \A a, b \in DOMAIN vac : a # b => vac[a].id # vac[b].id
            /\ {v.id : v \in Range(vac)} = {v.id : v \in Range(items)}
            /\ \A k \in DOMAIN vac : vac[k] = LastWith(items, vac[k].id)

\* identifier 1 came twice in the first response and again in the second, with
\* different contents, beside identifier 2
C5_Witness ==
    /\ tool = "buscar_empleos"
    /\ pc = "returned"
    /\ Len(received) = 2
    /\ Delivered(received[1])
    /\ Delivered(received[2])
    /\ received[1].body.vacancies = <<[hasId |-> TRUE, id |-> 1, data |-> "y"],
                                      [hasId |-> TRUE, id |-> 1, data |-> "x"]>>
    /\ received[2].body.vacancies = <<[hasId |-> TRUE, id |-> 2, data |-> "x"],
                                      [hasId |-> TRUE, id |-> 1, data |-> "y"]>>
    /\ result.vacantes_encontradas = <<[hasId |-> TRUE, id |-> 1, data |-> "y"],
                                       [hasId |-> TRUE, id |-> 2, data |-> "x"]>>

---------------------------------------------------------------------------
(* C6 *)

\* The properties the code does not meet are stated for the requests library most
\* favourable to it, the one whose JSON error is a RequestException and so is
\* caught: what refutes them is then a fault of every installation.
ModernRequests == jsonErrorCaught

\* C6: whatever the remote APIs do, buscar_empleos and buscar_google end by
\* returning a normally-shaped response; no invocation ends in an unhandled fault.
C6_NoUnhandledFault ==
    (ModernRequests /\ tool \in {"buscar_empleos", "buscar_google"} /\ Ended) =>
        /\ pc = "returned"
        /\ result.keys \in {EmpleosKeys, {"error", "resultados_encontrados"},
                            {"consulta", "resumen"}}

---------------------------------------------------------------------------
(* C7 *)

\* C7: buscar_google issues exactly one POST per invocation; if the call fails by
\* transport error or non-success status the tool returns, without raising or
\* retrying, an error message and resultados_encontrados = [] and no resumen; if
\* it succeeds the tool returns the original query under consulta, with resumen.
C7_GoogleSinglePost ==
    (ModernRequests /\ tool = "buscar_google") =>
        /\ Len(sent) = 1
        /\ sent[1].method = "POST"
        /\ Ended =>
            /\ Len(received) = 1
            /\ Failed(received[1]) =>
                /\ pc = "returned"
                /\ result.keys = {"error", "resultados_encontrados"}
                /\ result.error # ""
                /\ result.resultados_encontrados = <<>>
                /\ result.resumen = <<>>
            /\ received[1].status = "ok" =>
                /\ pc = "returned"
                /\ result.keys = {"consulta", "resumen"}
                /\ result.consulta = consulta_inicial
                /\ result.resumen # <<>>

---------------------------------------------------------------------------
(* C8 *)

SectionNames(resumen) == {resumen[k].sec : k \in DOMAIN resumen}

\* the place of a piece in the layout: header, answer box, knowledge graph, organic
Rank(piece) ==
    CASE piece.sec = "Resultados de busqueda para" -> 0
      [] piece.sec = "Respuesta destacada"         -> 1
      [] piece.sec = "Informacion clave"           -> 2
      [] piece.sec = "Resultados organicos"        -> 3
      [] OTHER                                     -> 4

\* a JSON value that is present and not empty
NonEmpty(v) == v.kind \notin {"absent", "null", "empty"} /\ ~(v.kind = "list" /\ v.items = <<>>)

\* C8: when buscar_google returns a resumen, it starts with the header line that
\* names the original query; for the body {} it is the header alone; "Respuesta
\* destacada" is there only if answerBox is non-empty, "Informacion clave" only if
\* knowledgeGraph is non-empty with a non-empty title or description, "Resultados
\* organicos" only if organic is non-empty; the sections come in that order.
C8_ResumenSections ==
    (tool = "buscar_google" /\ pc = "returned" /\ "resumen" \in result.keys) =>
        LET body == received[1].body
            r == result.resumen
        IN  /\ Len(r) >= 1
            /\ r[1].sec = "Resultados de busqueda para"
            /\ r[1].consulta = consulta_inicial
            /\ body = EmptyBody => Len(r) = 1
            /\ "Respuesta destacada" \in SectionNames(r) => NonEmpty(body.answerBox)
            /\ "Informacion clave" \in SectionNames(r) =>
                 /\ NonEmpty(body.knowledgeGraph)
                 /\ body.knowledgeGraph.title # "" \/ body.knowledgeGraph.description # ""
            /\ "Resultados organicos" \in SectionNames(r) => NonEmpty(body.organic)
            /\ \A a, b \in DOMAIN r :
                 a < b => (Rank(r[a]) < Rank(r[b]) \/ (Rank(r[a]) >= 3 /\ Rank(r[b]) = 4))

\* a body with an answer box, a knowledge graph without title and description, and
\* one organic result: the summary has the first and the third section only
C8_Witness ==
    /\ tool = "buscar_google"
    /\ pc = "returned"
    /\ Len(received) = 1
    /\ received[1].status = "ok"
    /\ received[1].body.answerBox.kind = "dict"
    /\ received[1].body.knowledgeGraph = [kind |-> "dict", title |-> "", description |-> ""]
    /\ Len(received[1].body.organic.items) = 1
    /\ [k \in DOMAIN result.resumen |-> result.resumen[k].sec]
         = <<"Resultados de busqueda para", "Respuesta destacada", "Resultados organicos",
             "resultado">>

---------------------------------------------------------------------------
(* C9 *)

\* C9: within one buscar_empleos invocation exactly one GET is attempted for each
\* variant of the expander, never zero and never more than one, and the calls are
\* sequential: at most one outbound call is outstanding at any time.
C9_OneGetPerVariant ==
    (ModernRequests /\ tool = "buscar_empleos") =>
        /\ inflight <= 1
        /\ Len(sent) <= Len(consultas_a_realizar)
        /\ \A k \in DOMAIN sent : sent[k] = GetRequest(consultas_a_realizar[k])
        /\ Len(received) = Len(sent) - inflight
        /\ Ended => Len(sent) = Len(consultas_a_realizar)

---------------------------------------------------------------------------
(* C10 *)

\* C10: every buscar_empleos invocation ends by returning a response: when it can
\* take no further step, it has returned.
C10_EndsByReturning ==
    (ModernRequests /\ tool = "buscar_empleos" /\ ~ENABLED Next) => pc = "returned"

\* the scheduling of one invocation: the interpreter runs on, and a GET with
\* timeout=10 ends
FairSpec ==
    Spec /\ WF_vars(StartGet) /\ WF_vars(EndGet) /\ WF_vars(ReturnEmpleos)

\* every buscar_empleos invocation ends, by returning or by raising
EmpleosHalts == (tool = "buscar_empleos") ~> Ended

====
